---- MODULE Spec2Model ----
(***************************************************************************)
(* ChromaDB Viewer (src/viewer.py): the process-wide connection handle,    *)
(* the collection/document accessor ChromaViewer, its pagination           *)
(* computation and the HTTP routes built on them.                          *)
(*                                                                         *)
(* The external store (chromadb.PersistentClient) is the environment: its  *)
(* contents are drawn in Init and every call into it either answers from   *)
(* those contents or raises, as chosen by the request's fault input.       *)
(* Document contents and ids are opaque tokens, distinct per position.     *)
(***************************************************************************)
EXTENDS Integers, Sequences, FiniteSets, TLC

VARIABLES
    chroma_client,  \* global handle: None, or the path the handle was opened on
    db_path,        \* global path: None, or a path string
    store,          \* contents of the database the handle reads
    request,        \* the request being answered (route and its inputs)
    response,       \* the answer produced for it
    calls,          \* store calls made while handling the request
    cli,            \* the command-line process running main()
    tasks,          \* the handlers in progress on the event loop
    running         \* the handler that holds the event loop, if one does

vars == <<chroma_client, db_path, store, request, response, calls, cli, tasks, running>>

(***************************************************************************)
(* Bounds of the model.                                                    *)
(***************************************************************************)
MaxDocs == 4
MaxPageSize == 3
MaxExtra == 3
MaxRecordDocs == 2
MaxTasks == 2

MinPage == 0 - 1
MaxPage == MaxDocs + 1

None == "None"
Names == {"a", "b"}
Pages == MinPage..MaxPage
PageSizes == 1..MaxPageSize
QueryPageSizes == 0..MaxPageSize

Min(x, y) == IF x < y THEN x ELSE y
Max(x, y) == IF x > y THEN x ELSE y

(***************************************************************************)
(* The external store.                                                     *)
(***************************************************************************)
Document(name, i) == <<"doc", name, i>>
DocId(name, i) == <<"id", name, i>>

Enumerations ==
    {e \in UNION {[1..n -> Names] : n \in 0..Cardinality(Names)} :
        \A i, j \in DOMAIN e : e[i] = e[j] => i = j}

Listed(st) == {st.collections[i] : i \in DOMAIN st.collections}

StoresOf(e) ==
    {[collections |-> e,
      docs |-> [name \in Names |-> [i \in 1..cnt[name] |-> Document(name, i)]]] :
        cnt \in {c \in [Names -> 0..MaxDocs] :
                    \A name \in Names :
                        (\A i \in DOMAIN e : e[i] # name) => c[name] = 0}}

Stores == UNION {StoresOf(e) : e \in Enumerations}

FaultMessage == "disk I/O error"
NotFoundMessage(name) == "Collection " \o name \o " does not exist."
NoClientMessage == "'NoneType' object has no attribute 'get_collection'"

Faults == {"none", "get_collection", "get"}
ListFaults == {"none", "get_collection", "count"}

\* chroma_client.get_collection(name=...)
ClientGetCollection(st, name, fault) ==
    IF fault = "get_collection"
    THEN [raised |-> TRUE, message |-> FaultMessage]
    ELSE IF name \notin Listed(st)
    THEN [raised |-> TRUE, message |-> NotFoundMessage(name)]
    ELSE [raised |-> FALSE, name |-> name]

\* How the store's answer to get carries the ids: "present" (one per document,
\* what Chroma returns), "absent" (no 'ids' key) or "empty" (an empty list).
StoreIds(st) == IF "ids" \in DOMAIN st THEN st.ids ELSE "present"

\* collection.get(include=['documents', 'metadatas'])
CollectionGet(st, name, fault) ==
    IF fault = "get"
    THEN [raised |-> TRUE, message |-> FaultMessage]
    ELSE [raised |-> FALSE,
          results |->
            IF StoreIds(st) = "absent"
            THEN [documents |-> st.docs[name]]
            ELSE IF StoreIds(st) = "empty"
            THEN [documents |-> st.docs[name], ids |-> <<>>]
            ELSE [documents |-> st.docs[name],
                  ids |-> [i \in 1..Len(st.docs[name]) |-> DocId(name, i)]]]

\* collection.count()
CollectionCount(st, name, fault) ==
    IF fault = "count"
    THEN [raised |-> TRUE, message |-> FaultMessage]
    ELSE [raised |-> FALSE, count |-> Len(st.docs[name])]

NoCalls ==
    [connect |-> 0, list_collections |-> 0, get_collection |-> 0, get |-> 0, count |-> 0]
NoRequest == [route |-> "none"]
NoResponse == [route |-> "none", status |-> 0]

Idle == response = NoResponse

\* The values of cli, tasks and running where main() and the event loop's
\* scheduling are not followed.
NoProcess == [pc |-> "none"]
NoTasks == <<>>

(***************************************************************************)
(* ChromaViewer.get_collection_documents: the pagination computation.      *)
(***************************************************************************)
TotalPagesPlusOne(total_docs, page_size) == (total_docs + page_size) \div page_size

\* total_pages = (total_docs + page_size - 1) // page_size
TotalPages(total_docs, page_size) == (total_docs + page_size - 1) \div page_size

ValidatePageNoUpper(page, total_pages) == IF page < 1 THEN 1 ELSE page

\* if page < 1: page = 1;  if page > total_pages: page = total_pages
ValidatePage(page, total_pages) ==
    LET low == IF page < 1 THEN 1 ELSE page
    IN  IF low > total_pages THEN total_pages ELSE low

StartIdxNextPage(page, page_size) == page * page_size

\* start_idx = (page - 1) * page_size
StartIdx(page, page_size) == (page - 1) * page_size

EndIdxShort(start_idx, page_size, total_docs) ==
    Min(start_idx + page_size - 1, total_docs)

\* end_idx = min(start_idx + page_size, total_docs)
EndIdx(start_idx, page_size, total_docs) ==
    Min(start_idx + page_size, total_docs)

\* content[:200] + "..." if len(content) > 200 else content
PreviewLimit == 200
Ellipsis == <<46, 46, 46>>

ContentPreviewAtLimit(content) ==
    IF Len(content) >= PreviewLimit
    THEN SubSeq(content, 1, PreviewLimit) \o Ellipsis
    ELSE content

ContentPreview(content) ==
    IF Len(content) > PreviewLimit
    THEN SubSeq(content, 1, PreviewLimit) \o Ellipsis
    ELSE content

\* ids = results.get('ids', list(range(len(documents)))); the integer i of
\* the default list is written <<"int", i>>.
ResultIds(results) ==
    IF "ids" \in DOMAIN results
    THEN results.ids
    ELSE [i \in 1..Len(results.documents) |-> <<"int", i - 1>>]

\* One record of page_documents for the 0-based position idx; f"doc_{idx}" is
\* written <<"doc_", idx>>.  The fields metadata and metadata_str are
\* functions of the document at idx alone and take no part in the window
\* computation.
PageDocument(results, idx) ==
    [index |-> idx + 1,
     id |-> IF idx < Len(ResultIds(results))
            THEN ResultIds(results)[idx + 1]
            ELSE <<"doc_", idx>>,
     content |-> results.documents[idx + 1],
     content_preview |-> ContentPreview(results.documents[idx + 1])]

PageDocumentsNoOffset(results, start_idx, end_idx) ==
    [k \in 1..(end_idx - start_idx) |-> PageDocument(results, k - 1)]

\* for idx in range(start_idx, end_idx): page_documents.append({...})
PageDocuments(results, start_idx, end_idx) ==
    [k \in 1..(end_idx - start_idx) |-> PageDocument(results, start_idx + k - 1)]

\* The early return for a result without documents.
EmptyPage(collection_name, page, page_size) ==
    [collection_name |-> collection_name,
     documents |-> <<>>,
     total_documents |-> 0,
     current_page |-> page,
     total_pages |-> 0,
     page_size |-> page_size]

\* The body of the try block once the store has answered.
Paginate(collection_name, results, page, page_size) ==
    IF results.documents = <<>>
    THEN EmptyPage(collection_name, page, page_size)
    ELSE LET total_docs  == Len(results.documents)
             total_pages == TotalPages(total_docs, page_size)
             valid_page  == ValidatePage(page, total_pages)
             start_idx   == StartIdx(valid_page, page_size)
             end_idx     == EndIdx(start_idx, page_size, total_docs)
         IN  [collection_name |-> collection_name,
              documents |-> PageDocuments(results, start_idx, end_idx),
              total_documents |-> total_docs,
              current_page |-> valid_page,
              total_pages |-> total_pages,
              page_size |-> page_size,
              start_idx |-> start_idx + 1,
              end_idx |-> end_idx]

RetrievalErrorNoMessage(message) ==
    [status |-> 500, detail |-> "Error retrieving documents"]

\* raise HTTPException(status_code=500, detail=f"Error retrieving documents: {str(e)}")
RetrievalError(message) ==
    [status |-> 500, detail |-> "Error retrieving documents: " \o message]

\* The outcome of get_collection_documents: the page it returns or the
\* HTTPException it raises, with the store calls it made.
GetCollectionDocuments(client, st, collection_name, page, page_size, fault) ==
    IF client = None
    THEN [raised |-> TRUE, error |-> RetrievalError(NoClientMessage), calls |-> NoCalls]
    ELSE LET collection == ClientGetCollection(st, collection_name, fault)
             got == CollectionGet(st, collection_name, fault)
         IN  IF collection.raised
             THEN [raised |-> TRUE, error |-> RetrievalError(collection.message),
                   calls |-> [NoCalls EXCEPT !.get_collection = 1]]
             ELSE IF got.raised
             THEN [raised |-> TRUE, error |-> RetrievalError(got.message),
                   calls |-> [NoCalls EXCEPT !.get_collection = 1, !.get = 1]]
             ELSE [raised |-> FALSE,
                   value |-> Paginate(collection_name, got.results, page, page_size),
                   calls |-> [NoCalls EXCEPT !.get_collection = 1, !.get = 1]]

(***************************************************************************)
(* ChromaViewer.get_collections: the listing.                              *)
(***************************************************************************)
\* chroma_client.list_collections()
ClientListCollections(st, list_fails) ==
    IF list_fails
    THEN [raised |-> TRUE, message |-> FaultMessage]
    ELSE [raised |-> FALSE, collections |-> st.collections]

\* The body of the loop for one enumerated collection.
CollectionEntry(st, name, fault) ==
    LET collection == ClientGetCollection(st, name, fault)
        counted == CollectionCount(st, name, fault)
    IN  IF collection.raised
        THEN [name |-> name, document_count |-> 0, error |-> collection.message]
        ELSE IF counted.raised
        THEN [name |-> name, document_count |-> 0, error |-> counted.message]
        ELSE [name |-> collection.name, document_count |-> counted.count]

CollectionsDataSkipFailed(st, collections_list, faults) ==
    SelectSeq([i \in DOMAIN collections_list |->
                   CollectionEntry(st, collections_list[i], faults[collections_list[i]])],
              LAMBDA entry : "error" \notin DOMAIN entry)

\* collections_data after the loop over collections_list.
CollectionsData(st, collections_list, faults) ==
    [i \in DOMAIN collections_list |->
        CollectionEntry(st, collections_list[i], faults[collections_list[i]])]

\* Store calls made by the loop: one lookup per collection, one count per
\* collection whose lookup succeeded.
ListingCalls(collections_list, faults) ==
    [NoCalls EXCEPT
        !.list_collections = 1,
        !.get_collection = Len(collections_list),
        !.count = Cardinality({i \in DOMAIN collections_list :
                                  faults[collections_list[i]] # "get_collection"})]

\* The outcome of get_collections: the list it returns, or the exception of
\* list_collections, which it does not catch.
GetCollections(st, faults, list_fails) ==
    LET listed == ClientListCollections(st, list_fails)
    IN  IF listed.raised
        THEN [raised |-> TRUE, message |-> listed.message,
              calls |-> [NoCalls EXCEPT !.list_collections = 1]]
        ELSE [raised |-> FALSE,
              value |-> CollectionsData(st, listed.collections, faults),
              calls |-> ListingCalls(listed.collections, faults)]

(***************************************************************************)
(* ChromaViewer.connect / disconnect and the filesystem they validate.     *)
(***************************************************************************)
Paths == {"", "/missing", "/file", "/plain_dir", "/db1", "/db2"}

\* chroma_files = ['chroma.sqlite3', 'header.bin']
ChromaFiles == {"chroma.sqlite3", "header.bin"}

\* What the filesystem holds at each path.
FileSystem ==
    [p \in Paths |->
        CASE p = "/file"      -> [kind |-> "file", files |-> {}]
          [] p = "/plain_dir" -> [kind |-> "dir", files |-> {"notes.txt"}]
          [] p = "/db1"       -> [kind |-> "dir", files |-> {"chroma.sqlite3", "index.bin"}]
          [] p = "/db2"       -> [kind |-> "dir", files |-> {"header.bin"}]
          [] OTHER            -> [kind |-> "missing", files |-> {}]]

PathExists(p) == FileSystem[p].kind # "missing"
PathIsDir(p) == FileSystem[p].kind = "dir"

HasChromaFilesAnyFile(p) == FileSystem[p].files # {}

\* has_chroma_files = any((db_path / f).exists() for f in chroma_files)
HasChromaFiles(p) == \E f \in ChromaFiles : f \in FileSystem[p].files

(***************************************************************************)
(* The HTTP routes.  A handler runs to completion on the event loop; the   *)
(* server then sends the response and takes the next request.              *)
(***************************************************************************)
InternalServerError(route) ==
    [route |-> route, status |-> 500, body |-> "Internal Server Error"]

ValidationError(route) == [route |-> route, status |-> 422]

\* GET /
Home(faults, list_fails) ==
    /\ Idle
    /\ UNCHANGED <<cli, tasks, running>>
    /\ request' = [route |-> "home", faults |-> faults, list_fails |-> list_fails]
    /\ IF chroma_client = None
       THEN /\ response' = [route |-> "home", status |-> 200, view |-> "connection.html"]
            /\ calls' = NoCalls
       ELSE LET out == GetCollections(store, faults, list_fails)
            IN  /\ calls' = out.calls
                /\ response' =
                     IF out.raised
                     THEN InternalServerError("home")
                     ELSE [route |-> "home", status |-> 200, view |-> "collections.html",
                           collections |-> out.value, db_path |-> db_path]
    /\ UNCHANGED <<chroma_client, db_path, store>>

\* POST /api/connect, with ChromaViewer.connect inlined; opens says whether
\* chromadb.PersistentClient succeeds.
ConnectDatabase(db_path_str, opens) ==
    /\ Idle
    /\ UNCHANGED <<cli, tasks, running>>
    /\ request' = [route |-> "connect", db_path |-> db_path_str, opens |-> opens]
    /\ calls' = IF db_path_str # "" /\ PathExists(db_path_str) /\ PathIsDir(db_path_str)
                   /\ HasChromaFiles(db_path_str)
                THEN [NoCalls EXCEPT !.connect = 1]
                ELSE NoCalls
    /\ UNCHANGED store
    /\ IF db_path_str = ""
       THEN /\ response' = [route |-> "connect", status |-> 400,
                            detail |-> "Database path is required"]
            /\ UNCHANGED <<chroma_client, db_path>>
       ELSE IF ~PathExists(db_path_str)
       THEN /\ response' = [route |-> "connect", status |-> 400,
                            detail |-> "Database path '" \o db_path_str \o "' does not exist"]
            /\ UNCHANGED <<chroma_client, db_path>>
       ELSE IF ~PathIsDir(db_path_str)
       THEN /\ response' = [route |-> "connect", status |-> 400,
                            detail |-> "'" \o db_path_str \o "' is not a directory"]
            /\ UNCHANGED <<chroma_client, db_path>>
       ELSE IF ~HasChromaFiles(db_path_str)
       THEN /\ response' = [route |-> "connect", status |-> 400,
                            detail |-> "'" \o db_path_str
                                       \o "' doesn't appear to contain Chroma database files"]
            /\ UNCHANGED <<chroma_client, db_path>>
       ELSE /\ db_path' = db_path_str
            /\ IF opens
               THEN /\ chroma_client' = db_path_str
                    /\ response' = [route |-> "connect", status |-> 200, success |-> TRUE]
               ELSE /\ UNCHANGED chroma_client
                    /\ response' = [route |-> "connect", status |-> 500,
                                    detail |-> "Failed to connect to database"]

DisconnectDatabaseKeepsHandle ==
    /\ Idle
    /\ UNCHANGED <<cli, tasks, running>>
    /\ request' = [route |-> "disconnect"]
    /\ calls' = NoCalls
    /\ UNCHANGED <<store, chroma_client>>
    /\ IF chroma_client = None
       THEN /\ response' = [route |-> "disconnect", status |-> 400,
                            detail |-> "No database connection to disconnect"]
            /\ UNCHANGED db_path
       ELSE /\ db_path' = None
            /\ response' = [route |-> "disconnect", status |-> 200, success |-> TRUE]

\* POST /api/disconnect, with ChromaViewer.disconnect inlined.
DisconnectDatabase ==
    /\ Idle
    /\ UNCHANGED <<cli, tasks, running>>
    /\ request' = [route |-> "disconnect"]
    /\ calls' = NoCalls
    /\ UNCHANGED store
    /\ IF chroma_client = None
       THEN /\ response' = [route |-> "disconnect", status |-> 400,
                            detail |-> "No database connection to disconnect"]
            /\ UNCHANGED <<chroma_client, db_path>>
       ELSE /\ chroma_client' = None
            /\ db_path' = None
            /\ response' = [route |-> "disconnect", status |-> 200, success |-> TRUE]

\* GET /api/collections
GetCollectionsApi(faults, list_fails) ==
    /\ Idle
    /\ UNCHANGED <<cli, tasks, running>>
    /\ request' = [route |-> "collections_api", faults |-> faults,
                   list_fails |-> list_fails]
    /\ IF chroma_client = None
       THEN /\ response' = [route |-> "collections_api", status |-> 500,
                            detail |-> "Database not connected"]
            /\ calls' = NoCalls
       ELSE LET out == GetCollections(store, faults, list_fails)
            IN  /\ calls' = out.calls
                /\ response' =
                     IF out.raised
                     THEN InternalServerError("collections_api")
                     ELSE [route |-> "collections_api", status |-> 200,
                           collections |-> out.value]
    /\ UNCHANGED <<chroma_client, db_path, store>>

DocumentsRequest(route, collection_name, page, page_size, fault) ==
    [route |-> route, collection_name |-> collection_name, page |-> page,
     page_size |-> page_size, fault |-> fault]

\* GET /collection/{collection_name}
ViewCollection(collection_name, page, page_size, fault) ==
    /\ Idle
    /\ UNCHANGED <<cli, tasks, running>>
    /\ request' = DocumentsRequest("view_collection", collection_name, page, page_size, fault)
    /\ IF page < 1 \/ page_size < 1
       THEN /\ response' = ValidationError("view_collection")
            /\ calls' = NoCalls
       ELSE IF chroma_client = None
       THEN /\ response' = [route |-> "view_collection", status |-> 200,
                            view |-> "error.html",
                            error |-> "Database not connected. Please reconnect."]
            /\ calls' = NoCalls
       ELSE LET out == GetCollectionDocuments(chroma_client, store, collection_name,
                                              page, page_size, fault)
            IN  /\ calls' = out.calls
                /\ response' =
                     IF out.raised
                     THEN [route |-> "view_collection", status |-> out.error.status,
                           detail |-> out.error.detail]
                     ELSE IF "start_idx" \notin DOMAIN out.value
                     THEN InternalServerError("view_collection")
                     ELSE [route |-> "view_collection", status |-> 200,
                           view |-> "documents.html",
                           context |->
                             [collection_name |-> collection_name,
                              documents |-> out.value.documents,
                              total_documents |-> out.value.total_documents,
                              current_page |-> out.value.current_page,
                              total_pages |-> out.value.total_pages,
                              page_size |-> page_size,
                              start_idx |-> out.value.start_idx,
                              end_idx |-> out.value.end_idx]]
    /\ UNCHANGED <<chroma_client, db_path, store>>

\* The answer of a caller that returns get_collection_documents' result as is.
DocumentsAnswer(route, out) ==
    IF out.raised
    THEN [route |-> route, status |-> out.error.status, detail |-> out.error.detail]
    ELSE [route |-> route, status |-> 200, result |-> out.value]

\* GET /api/collection/{collection_name}/documents
GetCollectionDocumentsApi(collection_name, page, page_size, fault) ==
    /\ Idle
    /\ UNCHANGED <<cli, tasks, running>>
    /\ request' = DocumentsRequest("documents_api", collection_name, page, page_size, fault)
    /\ IF page < 1 \/ page_size < 1
       THEN /\ response' = ValidationError("documents_api")
            /\ calls' = NoCalls
       ELSE IF chroma_client = None
       THEN /\ response' = [route |-> "documents_api", status |-> 500,
                            detail |-> "Database not connected"]
            /\ calls' = NoCalls
       ELSE LET out == GetCollectionDocuments(chroma_client, store, collection_name,
                                              page, page_size, fault)
            IN  /\ calls' = out.calls
                /\ response' = DocumentsAnswer("documents_api", out)
    /\ UNCHANGED <<chroma_client, db_path, store>>

\* The server sends the response and waits for the next request.
Respond ==
    /\ ~Idle
    /\ UNCHANGED <<cli, tasks, running>>
    /\ request' = NoRequest
    /\ response' = NoResponse
    /\ calls' = NoCalls
    /\ UNCHANGED <<chroma_client, db_path, store>>

Init ==
    /\ chroma_client = None
    /\ db_path = None
    /\ store \in Stores
    /\ request = NoRequest
    /\ response = NoResponse
    /\ calls = NoCalls
    /\ cli = NoProcess
    /\ tasks = NoTasks
    /\ running = {}

Next ==
    \/ \E faults \in [Names -> ListFaults], list_fails \in BOOLEAN :
          Home(faults, list_fails)
    \/ \E p \in Paths, opens \in BOOLEAN : ConnectDatabase(p, opens)
    \/ DisconnectDatabase
    \/ \E faults \in [Names -> ListFaults], list_fails \in BOOLEAN :
          GetCollectionsApi(faults, list_fails)
    \/ \E name \in Names, page \in Pages, page_size \in QueryPageSizes, fault \in Faults :
          ViewCollection(name, page, page_size, fault)
    \/ \E name \in Names, page \in Pages, page_size \in QueryPageSizes, fault \in Faults :
          GetCollectionDocumentsApi(name, page, page_size, fault)
    \/ Respond

Spec == Init /\ [][Next]_vars

(***************************************************************************)
(* get_collection_documents on its own: every input of the function is     *)
(* drawn, and the one action applies it.                                   *)
(***************************************************************************)
\* ChromaViewer.get_collection_documents(collection_name, page, page_size)
CallGetCollectionDocuments ==
    /\ request.route = "call"
    /\ UNCHANGED <<cli, tasks, running>>
    /\ Idle
    /\ LET out == GetCollectionDocuments(chroma_client, store, request.collection_name,
                                         request.page, request.page_size, request.fault)
       IN  /\ calls' = out.calls
           /\ response' = DocumentsAnswer("call", out)
    /\ UNCHANGED <<chroma_client, db_path, store, request>>

InitCall ==
    /\ chroma_client \in {None, "/db1"}
    /\ db_path = chroma_client
    /\ store \in Stores
    /\ request \in {DocumentsRequest("call", name, page, page_size, fault) :
                      name \in Names, page \in Pages, page_size \in PageSizes,
                      fault \in Faults}
    /\ response = NoResponse
    /\ calls = NoCalls
    /\ cli = NoProcess
    /\ tasks = NoTasks
    /\ running = {}

NextCall == CallGetCollectionDocuments

SpecCall == InitCall /\ [][NextCall]_vars

(***************************************************************************)
(* get_collection_documents on stores whose documents are texts of a       *)
(* length around the preview limit (a text is the sequence of its          *)
(* character codes) and whose answers carry the ids in each of the forms.  *)
(***************************************************************************)
Text(n, i) == [j \in 1..n |-> 97 + ((i + j) % 26)]

RecordStores ==
    {[collections |-> <<"a">>,
      docs |-> [name \in Names |->
                  IF name = "a" THEN [i \in 1..d |-> Text(n + i - 1, i)] ELSE <<>>],
      ids |-> ids] :
        d \in 1..MaxRecordDocs, n \in 0..(PreviewLimit + MaxExtra),
        ids \in {"present", "absent", "empty"}}

InitRecord ==
    /\ chroma_client = "/db1"
    /\ db_path = "/db1"
    /\ store \in RecordStores
    /\ request \in {DocumentsRequest("call", "a", page, page_size, "none") :
                      page \in 1..MaxRecordDocs, page_size \in 1..MaxRecordDocs}
    /\ response = NoResponse
    /\ calls = NoCalls
    /\ cli = NoProcess
    /\ tasks = NoTasks
    /\ running = {}

SpecRecord == InitRecord /\ [][NextCall]_vars

(***************************************************************************)
(* A caller that reads a collection page by page: it asks for page 1 and,  *)
(* as long as the page it got is not the last, for the next one.           *)
(***************************************************************************)
FetchPage ==
    /\ request.route = "walk"
    /\ UNCHANGED <<cli, tasks, running>>
    /\ LET out == GetCollectionDocuments(chroma_client, store, request.collection_name,
                                         request.page, request.page_size, request.fault)
           fetched == IF Idle THEN <<>> ELSE response.pages
       IN  /\ calls' = out.calls
           /\ IF out.raised
              THEN /\ response' = DocumentsAnswer("walk", out)
                   /\ request' = [request EXCEPT !.route = "walk_failed"]
              ELSE /\ response' = [route |-> "walk", status |-> 200,
                                   pages |-> Append(fetched, out.value)]
                   /\ request' = IF out.value.current_page < out.value.total_pages
                                 THEN [request EXCEPT !.page = out.value.current_page + 1]
                                 ELSE [request EXCEPT !.route = "walk_done"]
    /\ UNCHANGED <<chroma_client, db_path, store>>

InitWalk ==
    /\ chroma_client = "/db1"
    /\ db_path = "/db1"
    /\ store \in Stores
    /\ request \in {DocumentsRequest("walk", name, 1, page_size, "none") :
                      name \in Names, page_size \in PageSizes}
    /\ response = NoResponse
    /\ calls = NoCalls
    /\ cli = NoProcess
    /\ tasks = NoTasks
    /\ running = {}

NextWalk == FetchPage

SpecWalk == InitWalk /\ [][NextWalk]_vars

(***************************************************************************)
(* main(): the command line is parsed, the web files are written, the      *)
(* database path (if one was given) is validated and connected, and the    *)
(* web server is started.  Every input of the run is drawn in InitMain:    *)
(* the arguments, the answer typed at the prompt, and whether              *)
(* chromadb.PersistentClient succeeds.                                     *)
(***************************************************************************)
NoPath == "None"
Hosts == {"127.0.0.1", "0.0.0.0"}
Ports == {8000, 8080}
Answers == {"y", "YES", "n", ""}

\* response.lower()
Lower(answer) == IF answer = "YES" THEN "yes" ELSE answer

\* if args.db_path: an absent argument and an empty one are both false.
PathGiven(path) == path # NoPath /\ path # ""

\* The exit code of a process that has not exited, and the server of one that
\* has not started it.
NotExited == 0 - 1
NoServer == [started |-> FALSE]

\* sys.exit(code)
Exit(code) == [cli EXCEPT !.pc = "exited", !.exit_code = code]

\* create_directories(); create_html_templates(); create_static_files()
MainSetup ==
    /\ cli.pc = "setup"
    /\ cli' = [cli EXCEPT !.pc = "validate"]
    /\ UNCHANGED <<chroma_client, db_path, store, request, response, calls, tasks, running>>

MainValidateSkipsDirCheck ==
    /\ cli.pc = "validate"
    /\ cli' = IF ~PathGiven(cli.db_path) THEN [cli EXCEPT !.pc = "serve"]
              ELSE IF ~PathExists(cli.db_path) THEN Exit(1)
              ELSE IF ~HasChromaFiles(cli.db_path) THEN [cli EXCEPT !.pc = "prompt"]
              ELSE [cli EXCEPT !.pc = "connect"]
    /\ UNCHANGED <<chroma_client, db_path, store, request, response, calls, tasks, running>>

\* The checks of the path: exists, is_dir, has_chroma_files.
MainValidate ==
    /\ cli.pc = "validate"
    /\ cli' = IF ~PathGiven(cli.db_path) THEN [cli EXCEPT !.pc = "serve"]
              ELSE IF ~PathExists(cli.db_path) THEN Exit(1)
              ELSE IF ~PathIsDir(cli.db_path) THEN Exit(1)
              ELSE IF ~HasChromaFiles(cli.db_path) THEN [cli EXCEPT !.pc = "prompt"]
              ELSE [cli EXCEPT !.pc = "connect"]
    /\ UNCHANGED <<chroma_client, db_path, store, request, response, calls, tasks, running>>

\* response = input("Continue anyway? (y/N): ")
MainPrompt ==
    /\ cli.pc = "prompt"
    /\ cli' = IF Lower(cli.answer) \in {"y", "yes"}
              THEN [cli EXCEPT !.pc = "connect"]
              ELSE Exit(0)
    /\ UNCHANGED <<chroma_client, db_path, store, request, response, calls, tasks, running>>

\* if not ChromaViewer.connect(str(db_path)): sys.exit(1)
MainConnect ==
    /\ cli.pc = "connect"
    /\ db_path' = cli.db_path
    /\ IF cli.opens
       THEN /\ chroma_client' = cli.db_path
            /\ cli' = [cli EXCEPT !.pc = "serve", !.connect = "connected"]
       ELSE /\ UNCHANGED chroma_client
            /\ cli' = [Exit(1) EXCEPT !.connect = "failed"]
    /\ UNCHANGED <<store, request, response, calls, tasks, running>>

\* uvicorn.run(app, host=args.host, port=args.port)
MainServe ==
    /\ cli.pc = "serve"
    /\ cli' = [cli EXCEPT !.pc = "serving", !.server = [started |-> TRUE, host |-> cli.host, port |-> cli.port]]
    /\ UNCHANGED <<chroma_client, db_path, store, request, response, calls, tasks, running>>

InitMain ==
    /\ chroma_client = None
    /\ db_path = None
    /\ store \in {st \in Stores : st.collections = <<>>}
    /\ request = NoRequest
    /\ response = NoResponse
    /\ calls = NoCalls
    /\ cli \in {[pc |-> "setup", db_path |-> path, host |-> host, port |-> port,
                  answer |-> answer, opens |-> opens, connect |-> "not tried",
                  exit_code |-> NotExited, server |-> NoServer] :
                   path \in Paths \cup {NoPath}, host \in Hosts, port \in Ports,
                   answer \in Answers, opens \in BOOLEAN}
    /\ tasks = NoTasks
    /\ running = {}

NextMain ==
    \/ MainSetup
    \/ MainValidate
    \/ MainPrompt
    \/ MainConnect
    \/ MainServe

SpecMain == InitMain /\ [][NextMain]_vars

(***************************************************************************)
(* The handlers as coroutines on uvicorn's event loop.  Each step is one   *)
(* read or write of the globals or one call into the store; every call     *)
(* records in `used` the handle it went to.  A handler keeps the loop from *)
(* one await to the next, and the only await of the handlers is            *)
(* `await request.json()` in connect_database.                             *)
(***************************************************************************)
Tasks == 1..MaxTasks

ListingRoutes == {"home", "collections_api"}
DocumentRoutes == {"view_collection", "documents_api"}

IdleTask ==
    [route |-> "none", pc |-> "idle", i |-> 0, path |-> None, opens |-> FALSE, used |-> {}]

YieldsAfterEveryStep(route, pc) == TRUE

\* Whether the handler gives up the event loop after the step at pc.
YieldsAfter(route, pc) == route = "connect" /\ pc = "await"

\* The handler may take a step: no other handler holds the event loop.
Scheduled(t) == tasks[t].pc \notin {"idle", "done"} /\ running \subseteq {t}

\* The handler moves on; it keeps the loop unless it is done or awaits.
Advance(t, task) ==
    /\ tasks' = [tasks EXCEPT ![t] = task]
    /\ running' = IF task.pc = "done" \/ YieldsAfter(tasks[t].route, tasks[t].pc)
                  THEN {}
                  ELSE {t}

\* A request arrives and its handler is created.
Start(t, route, path, opens) ==
    /\ tasks[t].pc = "idle"
    /\ tasks' = [tasks EXCEPT ![t] =
                    [IdleTask EXCEPT !.route = route,
                                     !.pc = IF route = "connect" THEN "await" ELSE "check",
                                     !.path = path, !.opens = opens]]
    /\ UNCHANGED <<chroma_client, db_path, store, request, response, calls, cli, running>>

\* if not chroma_client: ...
CheckAttached(t) ==
    /\ Scheduled(t)
    /\ tasks[t].pc = "check"
    /\ Advance(t, [tasks[t] EXCEPT !.pc =
                     IF chroma_client = None THEN "done"
                     ELSE IF tasks[t].route \in ListingRoutes THEN "list"
                     ELSE IF tasks[t].route \in DocumentRoutes THEN "fetch"
                     ELSE "clear_client"])
    /\ UNCHANGED <<chroma_client, db_path, store, request, response, calls, cli>>

\* collections_list = chroma_client.list_collections()
ListCollections(t) ==
    /\ Scheduled(t)
    /\ tasks[t].pc = "list"
    /\ Advance(t, [tasks[t] EXCEPT
                     !.used = @ \cup {chroma_client},
                     !.i = 1,
                     !.pc = IF chroma_client = None \/ store.collections = <<>>
                            THEN "done" ELSE "lookup"])
    /\ UNCHANGED <<chroma_client, db_path, store, request, response, calls, cli>>

\* collection = chroma_client.get_collection(name=col_info.name);
\* collection.count() goes to the handle that returned the collection.
LookupCollection(t) ==
    /\ Scheduled(t)
    /\ tasks[t].pc = "lookup"
    /\ Advance(t, [tasks[t] EXCEPT
                     !.used = @ \cup {chroma_client},
                     !.i = IF @ < Len(store.collections) THEN @ + 1 ELSE @,
                     !.pc = IF tasks[t].i < Len(store.collections) THEN "lookup" ELSE "done"])
    /\ UNCHANGED <<chroma_client, db_path, store, request, response, calls, cli>>

\* collection = chroma_client.get_collection(name=collection_name);
\* collection.get(...) goes to the handle that returned the collection.
FetchDocuments(t) ==
    /\ Scheduled(t)
    /\ tasks[t].pc = "fetch"
    /\ Advance(t, [tasks[t] EXCEPT !.used = @ \cup {chroma_client}, !.pc = "done"])
    /\ UNCHANGED <<chroma_client, db_path, store, request, response, calls, cli>>

\* body = await request.json()
AwaitBody(t) ==
    /\ Scheduled(t)
    /\ tasks[t].pc = "await"
    /\ Advance(t, [tasks[t] EXCEPT !.pc = "validate"])
    /\ UNCHANGED <<chroma_client, db_path, store, request, response, calls, cli>>

\* The checks of connect_database, then db_path = Path(db_path_str).
ConnectSetPath(t) ==
    /\ Scheduled(t)
    /\ tasks[t].pc = "validate"
    /\ IF tasks[t].path # "" /\ PathExists(tasks[t].path) /\ PathIsDir(tasks[t].path)
          /\ HasChromaFiles(tasks[t].path)
       THEN /\ db_path' = tasks[t].path
            /\ Advance(t, [tasks[t] EXCEPT !.pc = "open"])
       ELSE /\ UNCHANGED db_path
            /\ Advance(t, [tasks[t] EXCEPT !.pc = "done"])
    /\ UNCHANGED <<chroma_client, store, request, response, calls, cli>>

\* chroma_client = chromadb.PersistentClient(path=str(db_path))
ConnectOpen(t) ==
    /\ Scheduled(t)
    /\ tasks[t].pc = "open"
    /\ chroma_client' = IF tasks[t].opens THEN tasks[t].path ELSE chroma_client
    /\ Advance(t, [tasks[t] EXCEPT !.pc = "done"])
    /\ UNCHANGED <<db_path, store, request, response, calls, cli>>

\* chroma_client = None
DisconnectClearClient(t) ==
    /\ Scheduled(t)
    /\ tasks[t].pc = "clear_client"
    /\ chroma_client' = None
    /\ Advance(t, [tasks[t] EXCEPT !.pc = "clear_path"])
    /\ UNCHANGED <<db_path, store, request, response, calls, cli>>

\* db_path = None
DisconnectClearPath(t) ==
    /\ Scheduled(t)
    /\ tasks[t].pc = "clear_path"
    /\ db_path' = None
    /\ Advance(t, [tasks[t] EXCEPT !.pc = "done"])
    /\ UNCHANGED <<chroma_client, store, request, response, calls, cli>>

\* The response of a finished handler is sent.
Finish(t) ==
    /\ tasks[t].pc = "done"
    /\ tasks' = [tasks EXCEPT ![t] = IdleTask]
    /\ UNCHANGED <<chroma_client, db_path, store, request, response, calls, cli, running>>

LoopStores == {st \in Stores : \A name \in Listed(st) : Len(st.docs[name]) = 1}

InitLoop ==
    /\ chroma_client = None
    /\ db_path = None
    /\ store \in LoopStores
    /\ request = NoRequest
    /\ response = NoResponse
    /\ calls = NoCalls
    /\ cli = NoProcess
    /\ tasks = [t \in Tasks |-> IdleTask]
    /\ running = {}

NextLoop ==
    \/ \E t \in Tasks, route \in ListingRoutes \cup DocumentRoutes \cup {"disconnect"} :
          Start(t, route, None, FALSE)
    \/ \E t \in Tasks, path \in {"/plain_dir", "/db1", "/db2"}, opens \in BOOLEAN :
          Start(t, "connect", path, opens)
    \/ \E t \in Tasks : CheckAttached(t)
    \/ \E t \in Tasks : ListCollections(t)
    \/ \E t \in Tasks : LookupCollection(t)
    \/ \E t \in Tasks : FetchDocuments(t)
    \/ \E t \in Tasks : AwaitBody(t)
    \/ \E t \in Tasks : ConnectSetPath(t)
    \/ \E t \in Tasks : ConnectOpen(t)
    \/ \E t \in Tasks : DisconnectClearClient(t)
    \/ \E t \in Tasks : DisconnectClearPath(t)
    \/ \E t \in Tasks : Finish(t)

SpecLoop == InitLoop /\ [][NextLoop]_vars

(***************************************************************************)
(* Browsing a collection: the pagination block of documents.html and the   *)
(* requests a browser makes by following its links.                        *)
(***************************************************************************)
MaxQueryPageSize == 100
PageSizeLinks == {50, 100}

Link(rel, page, page_size) == [rel |-> rel, page |-> page, page_size |-> page_size]

PageNumbersUpToNextPage(current_page, total_pages) ==
    Max(1, current_page - 2) .. Min(total_pages + 1, current_page + 3)

\* range(max(1, current_page - 2), min(total_pages + 1, current_page + 3))
PageNumbers(current_page, total_pages) ==
    Max(1, current_page - 2) .. (Min(total_pages + 1, current_page + 3) - 1)

\* The anchors of the pagination block; a disabled button is a span, not a
\* link.
PaginationLinks(context) ==
    IF ~(context.total_pages > 1)
    THEN {}
    ELSE (IF context.current_page > 1
          THEN {Link("first", 1, context.page_size),
                Link("previous", context.current_page - 1, context.page_size)}
          ELSE {})
         \cup {Link("number", page_num, context.page_size) :
                 page_num \in PageNumbers(context.current_page, context.total_pages)}
         \cup (IF context.current_page < context.total_pages
               THEN {Link("next", context.current_page + 1, context.page_size),
                     Link("last", context.total_pages, context.page_size)}
               ELSE {})
         \cup {Link("size", 1, page_size) : page_size \in PageSizeLinks}

\* The documents view is on the browser's screen.
Rendered ==
    /\ "view" \in DOMAIN response
    /\ response.view = "documents.html"

\* GET /collection/{collection_name}, asked by typing the address ("url") or
\* by following a link of the page on screen ("link").
BrowseCollection(via, collection_name, page, page_size, fault) ==
    /\ request' = [route |-> "view_collection", collection_name |-> collection_name,
                   page |-> page, page_size |-> page_size, fault |-> fault, via |-> via]
    /\ IF page < 1 \/ page_size < 1 \/ page_size > MaxQueryPageSize
       THEN /\ response' = ValidationError("view_collection")
            /\ calls' = NoCalls
       ELSE IF chroma_client = None
       THEN /\ response' = [route |-> "view_collection", status |-> 200,
                            view |-> "error.html",
                            error |-> "Database not connected. Please reconnect."]
            /\ calls' = NoCalls
       ELSE LET out == GetCollectionDocuments(chroma_client, store, collection_name,
                                              page, page_size, fault)
            IN  /\ calls' = out.calls
                /\ response' =
                     IF out.raised
                     THEN [route |-> "view_collection", status |-> out.error.status,
                           detail |-> out.error.detail]
                     ELSE IF "start_idx" \notin DOMAIN out.value
                     THEN InternalServerError("view_collection")
                     ELSE [route |-> "view_collection", status |-> 200,
                           view |-> "documents.html",
                           context |->
                             [collection_name |-> collection_name,
                              documents |-> out.value.documents,
                              total_documents |-> out.value.total_documents,
                              current_page |-> out.value.current_page,
                              total_pages |-> out.value.total_pages,
                              page_size |-> page_size,
                              start_idx |-> out.value.start_idx,
                              end_idx |-> out.value.end_idx]]
    /\ UNCHANGED <<chroma_client, db_path, store, cli, tasks, running>>

\* The session starts with an address typed into the browser.
EnterUrl(collection_name, page, page_size, fault) ==
    /\ Idle
    /\ BrowseCollection("url", collection_name, page, page_size, fault)

FollowLink(link, fault) ==
    /\ Rendered
    /\ link \in PaginationLinks(response.context)
    /\ BrowseCollection("link", response.context.collection_name,
                        link.page, link.page_size, fault)

InitBrowse ==
    /\ chroma_client = "/db1"
    /\ db_path = "/db1"
    /\ store \in Stores
    /\ request = NoRequest
    /\ response = NoResponse
    /\ calls = NoCalls
    /\ cli = NoProcess
    /\ tasks = NoTasks
    /\ running = {}

NextBrowse ==
    \/ \E collection_name \in Names, page \in 0..MaxPage, page_size \in PageSizes,
          fault \in Faults :
          EnterUrl(collection_name, page, page_size, fault)
    \/ \E fault \in Faults :
          \E link \in IF Rendered THEN PaginationLinks(response.context) ELSE {} :
             FollowLink(link, fault)

SpecBrowse == InitBrowse /\ [][NextBrowse]_vars

(***************************************************************************)
(* Properties.                                                             *)
(***************************************************************************)
\* The answer carries a page result of get_collection_documents.
HasResult == "result" \in DOMAIN response

\* The number of documents stored in the requested collection.
StoredDocs == store.docs[request.collection_name]
N == Len(StoredDocs)

\* ceil(n / s): the least k with k * s >= n.
CeilDiv(n, s) == CHOOSE k \in 0..n : k * s >= n /\ \A j \in 0..(k - 1) : j * s < n

\* A documents request that passed the route's parameter validation and
\* found a handle attached.
ReachedStore ==
    /\ request.route \in {"view_collection", "documents_api"}
    /\ request.page >= 1
    /\ request.page_size >= 1
    /\ chroma_client # None

\* C1: every page result reports current_page within [1, max(1, total_pages)],
\* the result for an empty collection included.
C1_CurrentPageClamped ==
    HasResult =>
        response.result.current_page \in 1..Max(1, response.result.total_pages)

\* C2: total_pages is ceil(N / S), and it is 0 exactly when the collection
\* holds no document.
C2_TotalPagesIsCeil ==
    HasResult =>
        /\ response.result.total_pages = CeilDiv(N, request.page_size)
        /\ (response.result.total_pages = 0 <=> N = 0)

C2_Witness ==
    /\ HasResult
    /\ N % request.page_size = 0
    /\ response.result.total_pages = 2

\* C3: on a valid page P of a non-empty collection the number of items is
\* min(S, N - (P-1)*S), which is between 1 and S.
C3_ItemCount ==
    (HasResult /\ N >= 1 /\ request.page \in 1..response.result.total_pages) =>
        /\ Len(response.result.documents)
             = Min(request.page_size, N - (request.page - 1) * request.page_size)
        /\ Len(response.result.documents) \in 1..request.page_size

C3_Witness ==
    /\ HasResult
    /\ request.page = response.result.total_pages
    /\ request.page >= 2
    /\ Len(response.result.documents) = request.page_size - 1

\* The page result for the same collection and page size at another page.
ResultAtPage(page) ==
    Paginate(request.collection_name,
             CollectionGet(store, request.collection_name, "none").results,
             page, request.page_size)

\* C4: for a non-empty collection a request for page P <= 0 gets the result
\* of page 1, and a request for P > total_pages the result of page total_pages.
C4_Clamping ==
    (HasResult /\ N >= 1) =>
        /\ request.page <= 0 =>
             /\ response.result.current_page = 1
             /\ response.result = ResultAtPage(1)
        /\ request.page > response.result.total_pages =>
             /\ response.result.current_page = response.result.total_pages
             /\ response.result = ResultAtPage(response.result.total_pages)

C4_Witness ==
    /\ HasResult
    /\ response.result.total_pages >= 2
    /\ request.page > response.result.total_pages
    /\ response.result.current_page = response.result.total_pages
    /\ Len(response.result.documents) >= 1

\* C5: for a non-empty collection, with P the reported page, the start index
\* is (P-1)*S + 1, the end index is min(P*S, N), and
\* end - start + 1 is the number of items.
C5_StartEndIndexes ==
    (HasResult /\ N >= 1) =>
        LET P == response.result.current_page
            S == request.page_size
        IN  /\ response.result.start_idx = (P - 1) * S + 1
            /\ response.result.end_idx = Min(P * S, N)
            /\ response.result.end_idx - response.result.start_idx + 1
                 = Len(response.result.documents)

C5_Witness ==
    /\ HasResult
    /\ N >= 1
    /\ response.result.current_page = 2
    /\ response.result.start_idx = request.page_size + 1
    /\ response.result.end_idx = N
    /\ N < 2 * request.page_size

\* C6: the items are the stored documents at the 0-based positions
\* start..end-1, in store order, one per position, each with
\* index = position + 1 and the content stored at that position.
C6_ItemsAreWindow ==
    (HasResult /\ N >= 1) =>
        LET start == (response.result.current_page - 1) * request.page_size
            end   == Min(start + request.page_size, N)
            items == response.result.documents
        IN  /\ Len(items) = end - start
            /\ \A k \in 1..Len(items) :
                 /\ items[k].index = start + k
                 /\ items[k].content = StoredDocs[start + k]

C6_Witness ==
    /\ HasResult
    /\ response.result.current_page >= 2
    /\ Len(response.result.documents) >= 2
    /\ response.result.documents[1].content
         = StoredDocs[request.page_size * (response.result.current_page - 1) + 1]

\* C7: with a store attached and an existing collection of any size,
\* GET /collection/{name} answers with the documents view.
C7_ViewRendersEveryCollection ==
    (/\ ReachedStore
     /\ request.route = "view_collection"
     /\ request.fault = "none"
     /\ request.collection_name \in Listed(store)) =>
        /\ response.status = 200
        /\ "view" \in DOMAIN response
        /\ response.view = "documents.html"

\* C8: a request for a collection the store does not hold is answered with a
\* client error (4xx).
C8_MissingCollectionIsClientError ==
    (/\ ReachedStore
     /\ request.fault = "none"
     /\ request.collection_name \notin Listed(store)) =>
        response.status \in 400..499

\* The message of the exception the store raises for the request, if any.
StoreRaises ==
    request.fault # "none" \/ request.collection_name \notin Listed(store)

UnderlyingMessage ==
    IF request.fault = "get_collection" THEN FaultMessage
    ELSE IF request.collection_name \notin Listed(store)
    THEN NotFoundMessage(request.collection_name)
    ELSE FaultMessage

\* C9: a failure raised by get_collection or get is answered with HTTP 500
\* 'Error retrieving documents: <message>', without any page, and each of
\* the two store calls is made at most once per request.
C9_RetrievalFailure ==
    ReachedStore =>
        /\ calls.get_collection <= 1
        /\ calls.get <= 1
        /\ StoreRaises =>
             /\ response.status = 500
             /\ response.detail = "Error retrieving documents: " \o UnderlyingMessage
             /\ DOMAIN response = {"route", "status", "detail"}

C9_Witness ==
    /\ ReachedStore
    /\ request.fault = "get"
    /\ request.collection_name \in Listed(store)
    /\ N >= 1
    /\ calls.get = 1
    /\ response.status = 500

\* A listing request that found a handle attached and whose enumeration of
\* the collections succeeded.
Listing ==
    /\ request.route \in {"home", "collections_api"}
    /\ chroma_client # None
    /\ ~request.list_fails

\* C10: whatever subset of the collections fails at lookup or count, the
\* listing has one entry per enumerated collection, in enumeration order; a
\* failing collection has document_count 0 and an error, every other one its
\* live count and no error field.
C10_PartialFailureTolerance ==
    Listing =>
        /\ "collections" \in DOMAIN response
        /\ Len(response.collections) = Len(store.collections)
        /\ \A i \in 1..Len(store.collections) :
             LET name == store.collections[i]
                 entry == response.collections[i]
             IN  /\ entry.name = name
                 /\ IF request.faults[name] # "none"
                    THEN /\ entry.document_count = 0
                         /\ "error" \in DOMAIN entry
                         /\ entry.error # ""
                    ELSE /\ entry.document_count = Len(store.docs[name])
                         /\ "error" \notin DOMAIN entry

C10_Witness ==
    /\ Listing
    /\ Len(store.collections) = 2
    /\ request.faults[store.collections[1]] = "count"
    /\ request.faults[store.collections[2]] = "none"
    /\ "collections" \in DOMAIN response
    /\ Len(response.collections) = 2
    /\ response.collections[1].document_count = 0
    /\ response.collections[2].document_count >= 1

\* A listing request that found a handle attached and whose enumeration of
\* the collections failed.
ListingFailed ==
    /\ request.route \in {"home", "collections_api"}
    /\ chroma_client # None
    /\ request.list_fails

\* C11: a failure of the store's enumeration of collections is answered to
\* the caller of GET / and GET /api/collections with a server error that
\* carries the underlying message.
C11_EnumerationFailureCarriesMessage ==
    ListingFailed =>
        /\ response.status \in 500..599
        /\ "detail" \in DOMAIN response

\* C12: after an attempt to connect that fails to open the store, the failure
\* is reported and no handle is attached, whatever was attached before.
C12_FailedConnectLeavesUnset ==
    (request.route = "connect" /\ response.status = 500) =>
        /\ response.detail = "Failed to connect to database"
        /\ chroma_client = None

\* C19: the handle and the stored path are consistent: one is set exactly
\* when the other is, and the path is the one the handle was opened on.
C19_HandleMatchesPath ==
    /\ chroma_client = None <=> db_path = None
    /\ chroma_client # None => db_path = chroma_client

\* A path that /api/connect must refuse: empty, absent, not a directory, or
\* a directory holding neither marker file.
Refusable(p) ==
    \/ p = ""
    \/ FileSystem[p].kind # "dir"
    \/ (FileSystem[p].files \cap {"chroma.sqlite3", "header.bin"}) = {}

\* C13: POST /api/connect with such a path is answered 400 without calling
\* ChromaViewer.connect, and leaves the handle and the stored path as they were.
C13_ValidatesBeforeConnecting ==
    [][(request'.route = "connect" /\ response' # response /\ Refusable(request'.db_path)) =>
          /\ response'.status = 400
          /\ calls'.connect = 0
          /\ chroma_client' = chroma_client
          /\ db_path' = db_path]_vars

C13_Witness ==
    /\ request.route = "connect"
    /\ request.db_path = "/plain_dir"
    /\ response.status = 400
    /\ calls.connect = 0
    /\ chroma_client = "/db1"
    /\ db_path = "/db1"

\* The step answers a request that arrived while no handle was attached.
AnsweredWhileDisconnected ==
    /\ chroma_client = None
    /\ Idle
    /\ ~Idle'
    /\ request'.route # "connect"

\* C14: a successful disconnect leaves no handle attached, only a successful
\* connect attaches one again, and while none is attached no request makes a
\* store call: GET / shows the connection prompt, GET /collection/{name} the
\* error view, the two /api routes answer 'Database not connected', and
\* POST /api/disconnect is refused with 400.
C14_DisconnectedUntilConnect ==
    [][/\ (request'.route = "disconnect" /\ response'.status = 200) =>
              chroma_client' = None
       /\ (chroma_client = None /\ chroma_client' # None) =>
              (request'.route = "connect" /\ response'.status = 200)
       /\ AnsweredWhileDisconnected =>
              /\ calls' = NoCalls
              /\ chroma_client' = None
              /\ request'.route = "home" =>
                     ("view" \in DOMAIN response' /\ response'.view = "connection.html")
              /\ request'.route = "collections_api" =>
                     ("detail" \in DOMAIN response'
                        /\ response'.detail = "Database not connected")
              /\ (request'.route = "view_collection"
                    /\ request'.page >= 1 /\ request'.page_size >= 1) =>
                     ("view" \in DOMAIN response' /\ response'.view = "error.html")
              /\ (request'.route = "documents_api"
                    /\ request'.page >= 1 /\ request'.page_size >= 1) =>
                     ("detail" \in DOMAIN response'
                        /\ response'.detail = "Database not connected")
              /\ request'.route = "disconnect" => response'.status = 400]_vars

C14_Witness ==
    /\ request.route = "disconnect"
    /\ response.status = 200
    /\ chroma_client = None
    /\ db_path = None

\* The 0-based position of the k-th item of the returned page.
ItemPosition(k) == (response.result.current_page - 1) * request.page_size + k - 1

\* C16: the preview of an emitted record is its content when that has at
\* most 200 characters, else the first 200 characters followed by '...'
\* (203 characters); the content field is the whole stored text.
C16_ContentPreview ==
    HasResult =>
        \A k \in DOMAIN response.result.documents :
            LET item == response.result.documents[k]
                text == StoredDocs[ItemPosition(k) + 1]
            IN  /\ item.content = text
                /\ Len(text) <= 200 => item.content_preview = text
                /\ Len(text) > 200 =>
                     /\ Len(item.content_preview) = 203
                     /\ SubSeq(item.content_preview, 1, 200) = SubSeq(text, 1, 200)
                     /\ SubSeq(item.content_preview, 201, 203) = <<46, 46, 46>>

C16_Witness ==
    /\ HasResult
    /\ Len(response.result.documents) = 2
    /\ Len(response.result.documents[1].content) = 200
    /\ response.result.documents[1].content_preview = response.result.documents[1].content
    /\ Len(response.result.documents[2].content) = 201
    /\ Len(response.result.documents[2].content_preview) = 203

\* C17: when the store's answer omits the ids, the record at the 0-based
\* position idx carries the id 'doc_<idx>'; when it has them, the record
\* carries the store's id of that position.
C17_IdFallback ==
    HasResult =>
        \A k \in DOMAIN response.result.documents :
            LET item == response.result.documents[k]
                idx == ItemPosition(k)
            IN  IF StoreIds(store) = "present"
                THEN item.id = DocId(request.collection_name, idx + 1)
                ELSE item.id = <<"doc_", idx>>

\* The items of the pages fetched so far, in the order fetched.
RECURSIVE Items(_)
Items(pages) ==
    IF pages = <<>> THEN <<>> ELSE Items(SubSeq(pages, 1, Len(pages) - 1))
                                      \o pages[Len(pages)].documents

\* C20: for a collection of N >= 1 documents and a page size S, the items of
\* pages 1, 2, ..., total_pages in order are every stored document exactly
\* once in store order (indexes 1..N), and total_documents and total_pages
\* are the same on every page.
C20_PagesPartitionCollection ==
    (request.route = "walk_done" /\ N >= 1) =>
        /\ Len(Items(response.pages)) = N
        /\ \A i \in 1..Len(Items(response.pages)) :
             /\ Items(response.pages)[i].index = i
             /\ Items(response.pages)[i].content = StoredDocs[i]
        /\ \A p \in DOMAIN response.pages :
             /\ response.pages[p].current_page = p
             /\ response.pages[p].total_documents = N
             /\ response.pages[p].total_pages = Len(response.pages)

C20_Witness ==
    /\ request.route = "walk_done"
    /\ N = 4
    /\ request.page_size = 3
    /\ Len(response.pages) = 2
    /\ Len(response.pages[2].documents) = 1
    /\ response.pages[2].documents[1].content = StoredDocs[4]

\* C18: a run given a database path exits with a nonzero code when the path
\* does not exist, is not a directory, or the connection fails, and it does so
\* without having started the web server; the web server is started only if
\* no path was given or the connection succeeded.
C18_StartupChecksBeforeServer ==
    /\ cli.pc = "exited" => ~cli.server.started
    /\ (cli.pc = "exited" /\ cli.db_path \notin {NoPath, ""}
          /\ FileSystem[cli.db_path].kind # "dir") => cli.exit_code > 0
    /\ cli.connect = "failed" => (cli.pc = "exited" /\ cli.exit_code > 0)
    /\ cli.server.started =>
          \/ cli.db_path \in {NoPath, ""}
          \/ (cli.connect = "connected" /\ chroma_client = cli.db_path)
    /\ (cli.db_path \notin {NoPath, ""} /\ FileSystem[cli.db_path].kind # "dir") =>
          cli.pc \in {"setup", "validate", "exited"}

C18_Witness ==
    /\ cli.pc = "exited"
    /\ cli.db_path = "/plain_dir"
    /\ Lower(cli.answer) = "yes"
    /\ cli.connect = "failed"
    /\ cli.exit_code = 1
    /\ ~cli.server.started

\* C15: under every interleaving of requests with a connect, reconnect or
\* disconnect, the store calls made for one request all go to one handle that
\* PersistentClient returned: none goes to an unset handle and no listing or
\* fetch mixes two handles.
C15_OneHandlePerRequest ==
    \A t \in DOMAIN tasks :
        /\ None \notin tasks[t].used
        /\ Cardinality(tasks[t].used) <= 1
        /\ \A handle \in tasks[t].used : FileSystem[handle].kind = "dir"

C15_Witness ==
    \E t, u \in DOMAIN tasks :
        /\ tasks[t].route = "home"
        /\ tasks[t].pc = "done"
        /\ tasks[t].i = 2
        /\ tasks[t].used = {"/db1"}
        /\ tasks[u].route = "connect"
        /\ tasks[u].pc = "validate"
        /\ tasks[u].path = "/db2"

\* C21: in the rendered documents view every pagination link targets a page
\* in [1, total_pages]; the numbered links are the pages
\* max(1, current_page - 2) .. min(total_pages, current_page + 2) and include
\* current_page; First and Previous are links only when current_page > 1, Next
\* and Last only when current_page < total_pages; and a page reached by
\* following a link is the page the link asked for, never a clamped one.
LinkPages(rels) ==
    {link.page : link \in {l \in PaginationLinks(response.context) : l.rel \in rels}}

C21_LinksStayInRange ==
    Rendered =>
        LET current_page == response.context.current_page
            total_pages  == response.context.total_pages
            links        == PaginationLinks(response.context)
        IN  /\ \A link \in links : 1 <= link.page /\ link.page <= total_pages
            /\ links # {} =>
                 /\ LinkPages({"number"}) =
                      Max(1, current_page - 2) .. Min(total_pages, current_page + 2)
                 /\ current_page \in LinkPages({"number"})
            /\ LinkPages({"first", "previous"}) # {} => current_page > 1
            /\ LinkPages({"next", "last"}) # {} => current_page < total_pages
            /\ (links # {} /\ current_page > 1) =>
                 /\ LinkPages({"first"}) = {1}
                 /\ LinkPages({"previous"}) = {current_page - 1}
            /\ (links # {} /\ current_page < total_pages) =>
                 /\ LinkPages({"next"}) = {current_page + 1}
                 /\ LinkPages({"last"}) = {total_pages}
            /\ request.via = "link" => current_page = request.page

C21_Witness ==
    /\ Rendered
    /\ request.via = "link"
    /\ response.context.total_pages >= 3
    /\ response.context.current_page = response.context.total_pages
    /\ LinkPages({"previous"}) = {response.context.total_pages - 1}

====
